---- MODULE Spec2Model ----
(***************************************************************************)
(* A model of the Apache Beam DoFns of                                     *)
(* non_semantic_speech_benchmark/data_prep/beam_dofns.py:                  *)
(*   ComputeEmbeddingMapFn                      (single embedding)         *)
(*   ComputeMultipleEmbeddingsFromSingleModel   (named embeddings)         *)
(*   ChunkAudioAndComputeEmbeddings             (chunked audio)            *)
(* One DoFn instance is modelled: its attributes (`self`), the number of   *)
(* times the loader ran, and the result of the last method call (`ret`).   *)
(***************************************************************************)
EXTENDS Integers, Sequences, FiniteSets, TLC

VARIABLES
  self,          \* the DoFn instance's attributes; NoInstance before __init__
  args,          \* the arguments of the last __init__ call
  setup_calls,   \* number of setup() calls made on the instance
  setup_fn_calls,\* number of invocations of the configured loader (setup_fn)
  ret,           \* outcome of the last method call (error, model call, yields)
  first          \* per (key, record): the result of its first process() call
                 \* since the last setup(), where the calls are tracked

vars == <<self, args, setup_calls, setup_fn_calls, ret, first>>

(***************************************************************************)
(* Bounds of the model.                                                    *)
(***************************************************************************)
MaxListLen == 2      \* longest value list of a sample-rate feature
MaxSetups == 2       \* setup() calls explored on one instance
MaxAudioLen == 4     \* longest waveform
MaxMinLen == 7       \* largest model_input_min_length

(***************************************************************************)
(* Python values.                                                          *)
(***************************************************************************)
\* A local name for a value: `Let(e, LAMBDA x : body)` is body with x = e.
Let(e, F(_)) == F(e)

None == [none |-> TRUE]
Some(x) == [none |-> FALSE, v |-> x]

\* bool(x) of an Optional[int] / Optional[str] / Optional[callable]
TruthyInt(o) == (~o.none) /\ o.v # 0
TruthyStr(o) == (~o.none) /\ o.v # ""
TruthyObj(o) == ~o.none

\* Python's a ^ b on two bools / two non-negative ints.
RECURSIVE BitXor(_, _)
BitXor(a, b) ==
  IF a = 0 /\ b = 0 THEN 0
  ELSE (((a % 2) + (b % 2)) % 2) + (2 * BitXor(a \div 2, b \div 2))

BoolXor(p, q) == (p /\ ~q) \/ (~p /\ q)

\* A float is held in tenths; int(f) truncates.
FloatToInt(tenths) == tenths \div 10

SeqsUpTo(S, n) == UNION {[1..k -> S] : k \in 0..n}

Max(a, b) == IF a >= b THEN a ELSE b
Min(a, b) == IF a <= b THEN a ELSE b

(***************************************************************************)
(* tf.train.Example: a map from feature name to a feature with three value *)
(* lists.                                                                  *)
(***************************************************************************)
Feature(f, i, b) == [float_list |-> f, int64_list |-> i, bytes_list |-> b]
HasFeature(ex, k) == k \in DOMAIN ex

(***************************************************************************)
(* Method results.                                                         *)
(***************************************************************************)
Ok(v) == [raised |-> "", value |-> v]
Raise(e) == [raised |-> e, value |-> None]

NoInstance == [cls |-> "none"]
NoRet == [op |-> "none", raised |-> ""]

(***************************************************************************)
(* ComputeEmbeddingMapFn.__init__                                          *)
(***************************************************************************)
ComputeEmbeddingMapFn_init(a) ==
  IF ~ BoolXor(a.sample_rate_key.none, a.sample_rate.none)
  THEN Raise("ValueError: Must have exactly one sample_rate_key or sample_rate")
  ELSE Ok([a EXCEPT !.cls = "ComputeEmbeddingMapFn"])

(***************************************************************************)
(* ComputeEmbeddingMapFn._read_sample_rate_from_tfexample                  *)
(***************************************************************************)
read_sample_rate_from_tfexample(s, ex) ==
  IF TruthyStr(s.sample_rate_key)
  THEN IF ~ HasFeature(ex, s.sample_rate_key.v)
       THEN Raise("ValueError: Sample rate key not found")
       ELSE LET sr_feat == ex[s.sample_rate_key.v] IN
            IF BitXor(Len(sr_feat.float_list), Len(sr_feat.int64_list)) = 0
            THEN Raise("ValueError: Expected exactly one of float_list and int64_list")
            ELSE IF Len(sr_feat.float_list) > 0
                 THEN Ok(FloatToInt(sr_feat.float_list[1]))
                 ELSE Ok(sr_feat.int64_list[1])
  ELSE IF ~ TruthyInt(s.sample_rate)
       THEN Raise("ValueError: If sample_rate_key not provided, must provide sample_rate")
       ELSE Ok(s.sample_rate.v)

(***************************************************************************)
(* numpy arrays and other Python values a model call can return.           *)
(* kind is "ndarray", or "tensor"/"list" for values that are not           *)
(* np.ndarray instances; ndim is Len(shape).                               *)
(***************************************************************************)
Value(kind, dtype, shape, data) ==
  [kind |-> kind, dtype |-> dtype, shape |-> shape, data |-> data]
NdArray(dtype, shape, data) == Value("ndarray", dtype, shape, data)
IsNdArray(x) == x.kind = "ndarray"
Ndim(x) == Len(x.shape)
Size1(x) == x.shape[1]

\* np.array(x): an ndarray of the same dtype, shape and content.
np_array(x) == [x EXCEPT !.kind = "ndarray"]

Reverse(s) == [i \in 1..Len(s) |-> s[Len(s) + 1 - i]]

(***************************************************************************)
(* np.pad(x, [0, delta], mode='symmetric') on a 1-D array, as numpy does   *)
(* it: the padded area is filled chunk by chunk, each chunk the mirror     *)
(* image of the end of what has been filled so far.                        *)
(***************************************************************************)
RECURSIVE PadSymmetricRight(_, _)
PadSymmetricRight(d, delta) ==
  IF delta <= 0 THEN d
  ELSE LET chunk == Min(Len(d), delta)
           tail == SubSeq(d, Len(d) - chunk + 1, Len(d))
       IN PadSymmetricRight(d \o Reverse(tail), delta - chunk)

\* np.pad(x, [0, delta]) in the default mode, 'constant': zeros are appended.
np_pad_constant(x, delta) ==
  NdArray(x.dtype, <<Len(x.data) + delta>>, x.data \o [i \in 1..delta |-> 0])

np_pad_symmetric(x, delta) ==
  LET d == PadSymmetricRight(x.data, delta)
  IN NdArray(x.dtype, <<Len(d)>>, d)

(***************************************************************************)
(* utils.tfexample_audio_to_npfloat32: the samples of the audio feature as *)
(* a 1-D float32 array (the float list when populated, else the integer    *)
(* list; the rescaling to [-1, 1] renames sample values and is not         *)
(* represented).                                                           *)
(***************************************************************************)
tfexample_audio_to_npfloat32(ex, audio_key, normalize_to_pm_one, k) ==
  LET f == ex[audio_key]
      d == IF Len(f.float_list) > 0 THEN f.float_list ELSE f.int64_list
  IN NdArray("float32", <<Len(d)>>, d)

(***************************************************************************)
(* ComputeEmbeddingMapFn._read_audio_from_tfexample                        *)
(***************************************************************************)
read_audio_from_tfexample(s, ex, k, normalize_to_pm_one) ==
  IF ~ HasFeature(ex, s.audio_key)
  THEN Raise("ValueError: Audio key not found")
  ELSE Let(tfexample_audio_to_npfloat32(ex, s.audio_key, normalize_to_pm_one, k),
           LAMBDA audio :
             IF Ndim(audio) # 1 THEN Raise("AssertionError: audio.ndim")
             ELSE IF Size1(audio) = 0 THEN Raise("ValueError: No audio found")
             ELSE Ok(audio))

(***************************************************************************)
(* ComputeEmbeddingMapFn.resample (librosa.core.resample): the waveform at *)
(* the target rate; its length scales with target_sr / sample_rate.        *)
(***************************************************************************)
resample(audio, sample_rate, target_sr) ==
  LET n == Size1(audio)
      m == ((n * target_sr) + sample_rate - 1) \div sample_rate
      d == [j \in 1..m |-> audio.data[Min(n, (((j - 1) * sample_rate) \div target_sr) + 1)]]
  IN NdArray("float32", <<m>>, d)

(***************************************************************************)
(* The configurable feature_fn: stubs named by what they return.           *)
(***************************************************************************)
CallFeatureFn(fn, audio, sample_rate) ==
  CASE fn = "reverse_f32" -> NdArray("float32", audio.shape, Reverse(audio.data))
    [] fn = "f64" -> NdArray("float64", audio.shape, audio.data)
    [] OTHER -> Value("list", "float32", audio.shape, audio.data)

(***************************************************************************)
(* ComputeEmbeddingMapFn._audio_to_features                                *)
(***************************************************************************)
audio_to_features(s, audio, sample_rate) ==
  IF TruthyObj(s.feature_fn)
  THEN Let(CallFeatureFn(s.feature_fn.v, audio, sample_rate),
           LAMBDA model_input :
             IF ~ IsNdArray(model_input) THEN Raise("ValueError: Expected ndarray")
             ELSE IF model_input.dtype # "float32"
             THEN Raise("ValueError: Should be float32")
             ELSE Ok(model_input))
  ELSE IF TruthyInt(s.model_input_min_length)
          /\ Size1(audio) < s.model_input_min_length.v
       THEN Ok(np_pad_symmetric(audio, s.model_input_min_length.v - Size1(audio)))
       ELSE Ok(audio)

(***************************************************************************)
(* ComputeEmbeddingMapFn.read_and_preprocess_audio: <<model_input,         *)
(* sample_rate>>.                                                          *)
(***************************************************************************)
read_and_preprocess_audio(s, k, ex) ==
  Let(read_audio_from_tfexample(s, ex, k, s.normalize_to_pm_one), LAMBDA a :
  IF a.raised # "" THEN a
  ELSE
  Let(read_sample_rate_from_tfexample(s, ex), LAMBDA r :
  IF r.raised # "" THEN r
  ELSE
  Let(IF r.value # s.target_sample_rate
      THEN <<resample(a.value, r.value, s.target_sample_rate), s.target_sample_rate>>
      ELSE <<a.value, r.value>>, LAMBDA resampled :
  Let(audio_to_features(s, resampled[1], resampled[2]), LAMBDA m :
  IF m.raised # "" THEN m
  ELSE Ok(<<m.value, resampled[2]>>)))))

(***************************************************************************)
(* ComputeEmbeddingMapFn.setup: the loader (setup_fn, hub.load by default) *)
(* returns a new handle of the module at every invocation; n numbers the   *)
(* invocations.                                                            *)
(***************************************************************************)
setup_fn(module, n) == [module |-> module, load |-> n]

setup(s, n) == [s EXCEPT !.post_setup_module = Some(setup_fn(s.module, n))]

(***************************************************************************)
(* The configurable module_call_fn of the single-embedding stage: stubs    *)
(* named by what they return, each a deterministic function of its         *)
(* arguments.  The result of a model is a (frames, EmbDim) embedding.      *)
(***************************************************************************)
EmbDim == 2

CallModuleFn(fn, model_input, sample_rate, mod, output_key, name) ==
  LET T == Size1(model_input)
      d == [model |-> mod.module, key |-> output_key,
            input |-> model_input.data, sr |-> sample_rate]
  IN CASE fn = "ok" -> NdArray("float32", <<T, EmbDim>>, d)
       [] fn = "float64" -> NdArray("float64", <<T, EmbDim>>, d)
       [] fn = "tensor" -> Value("tensor", "float32", <<T, EmbDim>>, d)
       [] fn = "ndim1" -> NdArray("float32", <<EmbDim>>, d)
       [] fn = "float64_if_short" ->
            NdArray(IF T < 2 THEN "float64" ELSE "float32", <<T, EmbDim>>, d)
       [] OTHER -> NdArray("float32", <<1, T, EmbDim>>, d) \* "ndim3"

\* np.mean(x, axis=ax, keepdims=True): the axis becomes 1, float32 stays.
np_mean_keepdims(x, ax) ==
  NdArray(x.dtype, [x.shape EXCEPT ![ax + 1] = 1],
          [mean_axis |-> ax, of |-> x.data])

\* np.mean(x, axis=0, keepdims=False): the first axis is dropped.
np_mean_axis0(x) ==
  NdArray(x.dtype, Tail(x.shape), [mean_axis |-> 0, of |-> x.data])

(***************************************************************************)
(* The outcome of one process() call, a generator run to its end: the      *)
(* error that ended it (if any), the arguments of the model call it made   *)
(* (if it got that far) and the records it yielded, in order.              *)
(***************************************************************************)
Outcome(k, ex, raised, call, yielded) ==
  [op |-> "process", k |-> k, ex |-> ex, raised |-> raised, call |-> call,
   yielded |-> yielded]

(***************************************************************************)
(* ComputeEmbeddingMapFn.process                                           *)
(***************************************************************************)
ComputeEmbeddingMapFn_process(s, k, ex) ==
  Let(read_and_preprocess_audio(s, k, ex), LAMBDA r :
  IF r.raised # "" THEN Outcome(k, ex, r.raised, None, <<>>)
  ELSE IF s.post_setup_module.none
  THEN Outcome(k, ex, "AttributeError: post_setup_module", None, <<>>)
  ELSE
  Let(Some([model_input |-> r.value[1], sample_rate |-> r.value[2],
            module |-> s.post_setup_module.v, output_key |-> s.output_key,
            name |-> s.name]), LAMBDA call :
  Let(CallModuleFn(s.module_call_fn, r.value[1], r.value[2],
                   s.post_setup_module.v, s.output_key, s.name),
      LAMBDA embedding_2d :
  IF ~ IsNdArray(embedding_2d)
  THEN Outcome(k, ex, "ValueError: embedding_2d wrong type", call, <<>>)
  ELSE IF Ndim(embedding_2d) # 2
  THEN Outcome(k, ex, "ValueError: embedding_2d wrong dims", call, <<>>)
  ELSE IF embedding_2d.dtype # "float32"
  THEN Outcome(k, ex, "ValueError: embedding_2d wrong dtype", call, <<>>)
  ELSE Outcome(k, ex, "", call,
               << <<k, IF s.average_over_time
                       THEN np_mean_keepdims(embedding_2d, 0)
                       ELSE embedding_2d>> >>))))

(***************************************************************************)
(* Python dicts as functions; d[k] = v adds or overwrites.                 *)
(***************************************************************************)
EmptyDict == [n \in {} |-> None]
DictSet(d, k, v) == [n \in (DOMAIN d) \cup {k} |-> IF n = k THEN v ELSE d[n]]

\* str(n) of a non-negative int.
Digit(n) == CASE n = 0 -> "0" [] n = 1 -> "1" [] n = 2 -> "2" [] n = 3 -> "3"
              [] n = 4 -> "4" [] n = 5 -> "5" [] n = 6 -> "6" [] n = 7 -> "7"
              [] n = 8 -> "8" [] OTHER -> "9"
RECURSIVE Str(_)
Str(n) == IF n < 10 THEN Digit(n) ELSE Str(n \div 10) \o Digit(n % 10)

(***************************************************************************)
(* ComputeMultipleEmbeddingsFromSingleModel.__init__ (a.output_key is a    *)
(* list of output keys).                                                   *)
(***************************************************************************)
ComputeMultipleEmbeddingsFromSingleModel_init(a) ==
  LET r == ComputeEmbeddingMapFn_init(a) IN
  IF r.raised # "" THEN r
  ELSE Ok([r.value EXCEPT !.cls = "ComputeMultipleEmbeddingsFromSingleModel"])

(***************************************************************************)
(* ChunkAudioAndComputeEmbeddings.__init__                                 *)
(***************************************************************************)
ChunkAudioAndComputeEmbeddings_init(a) ==
  LET r == ComputeMultipleEmbeddingsFromSingleModel_init(a) IN
  IF r.raised # "" THEN r
  ELSE Ok([r.value EXCEPT !.cls = "ChunkAudioAndComputeEmbeddings"])

(***************************************************************************)
(* utils.get_chunked_audio_fn: contiguous, non-overlapping chunks of       *)
(* chunk_len samples, a trailing remainder dropped.                        *)
(***************************************************************************)
get_chunked_audio_fn(model_input, chunk_len) ==
  LET n == Size1(model_input) \div chunk_len
  IN NdArray("float32", <<n, chunk_len>>,
             [c \in 1..n |-> SubSeq(model_input.data, ((c - 1) * chunk_len) + 1,
                                    c * chunk_len)])

\* np.expand_dims(x, axis=0)
np_expand_dims0(x) == NdArray(x.dtype, <<1>> \o x.shape, <<x.data>>)

(***************************************************************************)
(* ComputeMultipleEmbeddingsFromSingleModel.tfex_to_chunked_audio          *)
(***************************************************************************)
tfex_to_chunked_audio(s, k, ex) ==
  Let(read_and_preprocess_audio(s, k, ex), LAMBDA r :
  IF r.raised # "" THEN r
  ELSE IF TruthyInt(s.chunk_len) /\ r.value[1].shape[1] >= s.chunk_len.v
       THEN Ok(<<get_chunked_audio_fn(r.value[1], s.chunk_len.v), r.value[2]>>)
       ELSE r)

(***************************************************************************)
(* The configurable module_call_fn of the multi-output stages: a dict from *)
(* output key to a (batch, frames, EmbDim) value.  The stubs are named by  *)
(* what they return under key "k2"; the value under "k1" is always a       *)
(* well-formed float32 array.                                              *)
(***************************************************************************)
ModelKeys == {"k1", "k2"}

CallModuleFnW2v2(fn, model_input, mod) ==
  LET N == Size1(model_input)
      d(key) == [model |-> mod.module, key |-> key, input |-> model_input.data]
      good(key) == NdArray("float32", <<N, 2, EmbDim>>, d(key))
      k2 == CASE fn = "ok" -> good("k2")
              [] fn = "float64" -> NdArray("float64", <<N, 2, EmbDim>>, d("k2"))
              [] fn = "tensor" -> Value("tensor", "float32", <<N, 2, EmbDim>>, d("k2"))
              [] fn = "ndim2" -> NdArray("float32", <<2, EmbDim>>, d("k2"))
              [] fn = "wrong_dim" -> NdArray("float32", <<N, 2, EmbDim + 1>>, d("k2"))
              [] OTHER -> NdArray("float32", <<N + 1, 2, EmbDim>>, d("k2")) \* "bad_batch"
  IN [key \in ModelKeys |-> IF key = "k1" THEN good(key) ELSE k2]

(***************************************************************************)
(* ComputeMultipleEmbeddingsFromSingleModel.process: the loop over         *)
(* zip(self._embedding_names, self._output_keys), from pair i on.          *)
(***************************************************************************)
RECURSIVE NamedEmbeddings(_, _, _, _)
NamedEmbeddings(s, tf_out, i, out_dict) ==
  IF i > Min(Len(s.embedding_names), Len(s.output_key))
  THEN [raised |-> "", value |-> out_dict]
  ELSE IF s.output_key[i] \notin DOMAIN tf_out
  THEN Raise("ValueError: Output key not recognized")
  ELSE
  Let(np_array(tf_out[s.output_key[i]]), LAMBDA cur_emb :
  IF Ndim(cur_emb) # 3 THEN Raise("ValueError: Wrong output dim size")
  ELSE IF cur_emb.dtype # "float32" THEN Raise("ValueError: Wrong dtype")
  ELSE
  Let(np_mean_keepdims(np_mean_axis0(cur_emb), 0), LAMBDA embedding_2d :
  IF s.average_over_time /\ embedding_2d.shape[1] # 1
  THEN Raise("ValueError: Wrong batch dim")
  ELSE IF TruthyInt(s.embedding_length)
          /\ embedding_2d.shape[2] # s.embedding_length.v
  THEN Raise("ValueError: Wrong output dim")
  ELSE NamedEmbeddings(s, tf_out, i + 1,
                       DictSet(out_dict, s.embedding_names[i], embedding_2d))))

ComputeMultipleEmbeddingsFromSingleModel_process(s, k, ex) ==
  Let(tfex_to_chunked_audio(s, k, ex), LAMBDA r :
  IF r.raised # "" THEN Outcome(k, ex, r.raised, None, <<>>)
  ELSE IF s.post_setup_module.none
  THEN Outcome(k, ex, "AttributeError: post_setup_module", None, <<>>)
  ELSE
  Let(IF Ndim(r.value[1]) = 1 THEN np_expand_dims0(r.value[1]) ELSE r.value[1],
      LAMBDA model_input :
  Let(Some([model_input |-> model_input, module |-> s.post_setup_module.v]),
      LAMBDA call :
  Let(NamedEmbeddings(s, CallModuleFnW2v2(s.module_call_fn, model_input,
                                          s.post_setup_module.v), 1, EmptyDict),
      LAMBDA d :
  IF d.raised # "" THEN Outcome(k, ex, d.raised, call, <<>>)
  ELSE Outcome(k, ex, "", call, << <<k, ex, d.value>> >>)))))

(***************************************************************************)
(* _get_label                                                              *)
(***************************************************************************)
get_label(label_key, ex) ==
  IF ~ HasFeature(ex, label_key) THEN Raise("ValueError: label key not found")
  ELSE LET lbl_feat == ex[label_key] IN
       IF Len(lbl_feat.int64_list) > 0
       THEN Ok(Str(lbl_feat.int64_list[1]))
       ELSE IF Len(lbl_feat.bytes_list) = 0
            THEN Raise("AssertionError: lbl_feat.bytes_list.value")
            ELSE IF lbl_feat.bytes_list[1] = ""
                 THEN Raise("AssertionError: label")
                 ELSE Ok(lbl_feat.bytes_list[1])

(***************************************************************************)
(* _get_speaker_id                                                         *)
(***************************************************************************)
get_speaker_id(speaker_id_key, ex) ==
  IF ~ HasFeature(ex, speaker_id_key)
  THEN Raise("ValueError: speaker_id key not found")
  ELSE IF Len(ex[speaker_id_key].bytes_list) = 0
       THEN Raise("IndexError: bytes_list.value[0]")
       ELSE IF ex[speaker_id_key].bytes_list[1] = ""
            THEN Raise("AssertionError: speaker_id")
            ELSE Ok(ex[speaker_id_key].bytes_list[1])

\* x[i] of an array, i counted from 0.
np_index0(x, i) ==
  NdArray(x.dtype, Tail(x.shape), [index |-> i, of |-> x.data])

(***************************************************************************)
(* ChunkAudioAndComputeEmbeddings.process, lines 327-335: the assertions   *)
(* on one (averaged) embedding; "" when all of them pass.                  *)
(***************************************************************************)
\* The assertions not executed (as under python -O).
AssertEmbedding3d_stripped(s, x, chnkd_audio) == ""

AssertEmbedding3d(s, x, chnkd_audio) ==
  IF ~ IsNdArray(x) THEN "AssertionError: isinstance(x, np.ndarray)"
  ELSE IF Ndim(x) # 3 THEN "AssertionError: x.ndim == 3"
  ELSE IF x.dtype # "float32" THEN "AssertionError: x.dtype == np.float32"
  ELSE IF x.shape[1] # chnkd_audio.shape[1]
  THEN "AssertionError: x.shape[0] == chnkd_audio.shape[0]"
  ELSE IF TruthyInt(s.embedding_length) /\ x.shape[3] # s.embedding_length.v
  THEN "AssertionError: x.shape[2] == self._embedding_len"
  ELSE IF s.average_over_time /\ x.shape[2] # 1
  THEN "AssertionError: x.shape[1] == 1"
  ELSE ""

\* The dict comprehension {name: x[i] for name, x in zip(names, embs)}.
RECURSIVE ZipDict(_, _, _, _, _)
ZipDict(names, embs, i, j, out_dict) ==
  IF j > Min(Len(names), Len(embs)) THEN out_dict
  ELSE ZipDict(names, embs, i, j + 1,
               DictSet(out_dict, names[j], np_index0(embs[j], i)))

\* The records the final loop yields, one per chunk.
ChunkRecords(s, k, chnkd_audio, embedding_3ds, label, speaker_id) ==
  [n \in 1..chnkd_audio.shape[1] |->
     <<k \o "_" \o Str(n - 1),
       NdArray(chnkd_audio.dtype, Tail(chnkd_audio.shape), chnkd_audio.data[n]),
       label, speaker_id,
       ZipDict(s.embedding_names, embedding_3ds, n - 1, 1, EmptyDict)>>]

(***************************************************************************)
(* ChunkAudioAndComputeEmbeddings.process                                  *)
(***************************************************************************)
\* Lines 337-356: the label, the speaker id and the records yielded.
LabelsAndRecords(s, k, ex, call, chnkd_audio, embedding_3ds) ==
  Let(IF TruthyStr(s.label_key) THEN get_label(s.label_key.v, ex) ELSE Ok(None),
      LAMBDA l :
  IF l.raised # "" THEN Outcome(k, ex, l.raised, call, <<>>)
  ELSE
  Let(IF TruthyStr(s.speaker_id_key) THEN get_speaker_id(s.speaker_id_key.v, ex)
      ELSE Ok(None), LAMBDA sp :
  IF sp.raised # "" THEN Outcome(k, ex, sp.raised, call, <<>>)
  ELSE Outcome(k, ex, "", call,
               ChunkRecords(s, k, chnkd_audio, embedding_3ds,
                            IF TruthyStr(s.label_key) THEN Some(l.value) ELSE None,
                            IF TruthyStr(s.speaker_id_key) THEN Some(sp.value)
                            ELSE None))))

\* Lines 318-335: the embeddings of the configured output keys, validated.
ValidatedEmbeddings(s, k, ex, call, chnkd_audio, tf_out) ==
  IF \E j \in 1..Len(s.output_key) : s.output_key[j] \notin DOMAIN tf_out
  THEN Outcome(k, ex, "KeyError: tf_out[okey]", call, <<>>)
  ELSE
  Let([j \in 1..Len(s.output_key) |-> np_array(tf_out[s.output_key[j]])],
      LAMBDA cur_embs :
  IF \E j \in 1..Len(cur_embs) : Ndim(cur_embs[j]) # 3
  THEN Outcome(k, ex, "ValueError: Wrong output dims", call, <<>>)
  ELSE
  Let(IF s.average_over_time
      THEN [j \in 1..Len(cur_embs) |-> np_mean_keepdims(cur_embs[j], 1)]
      ELSE cur_embs, LAMBDA embedding_3ds :
  Let({j \in 1..Len(embedding_3ds) :
         AssertEmbedding3d(s, embedding_3ds[j], chnkd_audio) # ""}, LAMBDA bad :
  IF bad # {}
  THEN Outcome(k, ex,
               AssertEmbedding3d(s, embedding_3ds[CHOOSE x \in bad :
                                                    \A y \in bad : x <= y],
                                 chnkd_audio), call, <<>>)
  ELSE LabelsAndRecords(s, k, ex, call, chnkd_audio, embedding_3ds))))

\* Line 316: the array the model is called with.
ModelInputOfCall(s, chnkd_audio, model_input) == chnkd_audio

ChunkAudioAndComputeEmbeddings_process(s, k, ex) ==
  Let(tfex_to_chunked_audio(s, k, ex), LAMBDA r :
  IF r.raised # "" THEN Outcome(k, ex, r.raised, None, <<>>)
  ELSE
  Let(IF Ndim(r.value[1]) = 1 THEN np_expand_dims0(r.value[1]) ELSE r.value[1],
      LAMBDA chnkd_audio :
  Let(IF s.compute_embeddings_on_chunked_audio THEN Ok(<<chnkd_audio>>)
      ELSE read_and_preprocess_audio(s, k, ex), LAMBDA model_input :
  IF model_input.raised # "" THEN Outcome(k, ex, model_input.raised, None, <<>>)
  ELSE IF s.post_setup_module.none
  THEN Outcome(k, ex, "AttributeError: post_setup_module", None, <<>>)
  ELSE
  Let(ModelInputOfCall(s, chnkd_audio, model_input.value[1]), LAMBDA passed :
  ValidatedEmbeddings(s, k, ex,
                      Some([model_input |-> passed,
                            module |-> s.post_setup_module.v]),
                      chnkd_audio,
                      CallModuleFnW2v2(s.module_call_fn, passed,
                                       s.post_setup_module.v))))))

(***************************************************************************)
(* Calls on the instance.  Constructing dispatches on the class; process() *)
(* dispatches on the class of the instance and returns the instance as the *)
(* call leaves it together with the call's outcome.                        *)
(***************************************************************************)
New(a) ==
  CASE a.cls = "ComputeEmbeddingMapFn" -> ComputeEmbeddingMapFn_init(a)
    [] a.cls = "ComputeMultipleEmbeddingsFromSingleModel" ->
         ComputeMultipleEmbeddingsFromSingleModel_init(a)
    [] OTHER -> ChunkAudioAndComputeEmbeddings_init(a)

\* setup() that loads only when no handle is held yet.
DoFnSetup_memoized(s, n) ==
  IF s.post_setup_module.none
  THEN [self |-> setup(s, n + 1), setup_fn_calls |-> n + 1]
  ELSE [self |-> s, setup_fn_calls |-> n]

DoFnSetup(s, n) ==
  [self |-> setup(s, n + 1), setup_fn_calls |-> n + 1]

\* process() that drops the model handle when the record fails.
DoFnProcess_dropping(s, k, ex) ==
  LET r == ComputeEmbeddingMapFn_process(s, k, ex) IN
  [self |-> IF r.raised # "" THEN [s EXCEPT !.post_setup_module = None] ELSE s,
   ret |-> r]

DoFnProcess(s, k, ex) ==
  [self |-> s,
   ret |-> CASE s.cls = "ComputeEmbeddingMapFn" ->
                  ComputeEmbeddingMapFn_process(s, k, ex)
             [] s.cls = "ComputeMultipleEmbeddingsFromSingleModel" ->
                  ComputeMultipleEmbeddingsFromSingleModel_process(s, k, ex)
             [] OTHER -> ChunkAudioAndComputeEmbeddings_process(s, k, ex)]

(***************************************************************************)
(* Inputs: constructor arguments and tf.Examples.                          *)
(***************************************************************************)
BaseArgs ==
  [cls |-> "ComputeEmbeddingMapFn", name |-> "trill", module |-> "hub/trill",
   output_key |-> "k1", audio_key |-> "audio", sample_rate_key |-> None,
   sample_rate |-> Some(16000), average_over_time |-> TRUE,
   feature_fn |-> None, normalize_to_pm_one |-> TRUE,
   model_input_min_length |-> None, target_sample_rate |-> 16000,
   module_call_fn |-> "ok", embedding_names |-> <<>>, chunk_len |-> None,
   embedding_length |-> None, label_key |-> None, speaker_id_key |-> None,
   compute_embeddings_on_chunked_audio |-> TRUE, post_setup_module |-> None]

Samples(n) == [i \in 1..n |-> i]
AudioFeature(d) == Feature(d, <<>>, <<>>)
Keys == {"k"}

(***************************************************************************)
(* The calls as actions.                                                   *)
(***************************************************************************)
Init ==
  /\ self = NoInstance
  /\ args = NoInstance
  /\ setup_calls = 0
  /\ setup_fn_calls = 0
  /\ ret = NoRet
  /\ first = <<>>

Construct(a) ==
  /\ self.cls = "none"
  /\ ret.op = "none"
  /\ LET r == New(a) IN
       /\ self' = IF r.raised = "" THEN r.value ELSE self
       /\ ret' = [op |-> "init", raised |-> r.raised]
  /\ args' = a
  /\ UNCHANGED <<setup_calls, setup_fn_calls, first>>

Setup ==
  /\ self.cls # "none"
  /\ setup_calls < MaxSetups
  /\ LET r == DoFnSetup(self, setup_fn_calls) IN
       /\ self' = r.self
       /\ setup_fn_calls' = r.setup_fn_calls
  /\ setup_calls' = setup_calls + 1
  /\ ret' = [op |-> "setup", raised |-> ""]
  /\ first' = <<>>
  /\ UNCHANGED args

Call(k, ex) ==
  /\ self.cls # "none"
  /\ LET r == DoFnProcess(self, k, ex) IN
       /\ self' = r.self
       /\ ret' = r.ret
  /\ UNCHANGED <<args, setup_calls, setup_fn_calls>>

Process(k, ex) == Call(k, ex) /\ UNCHANGED first

\* The error (or "") and the yielded records of a process() call.
Result(r) == <<r.raised, r.yielded>>

\* process() with `first` recording, per (key, record), the result of its
\* first call under the current handle and whether it has been processed
\* once or more often.
ProcessTracked(k, ex) ==
  /\ Call(k, ex)
  /\ first' = IF <<k, ex>> \in DOMAIN first
              THEN [first EXCEPT ![<<k, ex>>].times = 2]
              ELSE DictSet(first, <<k, ex>>, [result |-> Result(ret'), times |-> 1])

(***************************************************************************)
(* Sample-rate resolution: every combination of the two options, and       *)
(* records whose sample-rate feature has float and int lists of every pair *)
(* of lengths.                                                             *)
(***************************************************************************)
RateKeys == {None, Some(""), Some("sample_rate")}
Rates == {None, Some(0), Some(16000)}
ArgsRate ==
  {[BaseArgs EXCEPT !.sample_rate_key = key, !.sample_rate = sr] :
     key \in RateKeys, sr \in Rates}

FloatRates == {160000, 80005}
IntRates == {16000, 8000}
ExamplesRate ==
  {<<>>} \cup
  {("sample_rate" :> Feature(f, i, <<>>)) :
     f \in SeqsUpTo(FloatRates, MaxListLen), i \in SeqsUpTo(IntRates, MaxListLen)}

ConstructRate == \E a \in ArgsRate : Construct(a)

ReadSampleRate ==
  \E ex \in ExamplesRate :
    /\ self.cls # "none"
    /\ LET r == read_sample_rate_from_tfexample(self, ex) IN
         ret' = [op |-> "read_sample_rate", ex |-> ex, raised |-> r.raised,
                 value |-> r.value]
    /\ UNCHANGED <<self, args, setup_calls, setup_fn_calls, first>>

NextRate == ConstructRate \/ ReadSampleRate
SpecRate == Init /\ [][NextRate]_vars

MustProvide ==
  "ValueError: If sample_rate_key not provided, must provide sample_rate"
ExpectedExactlyOne ==
  "ValueError: Expected exactly one of float_list and int64_list"

(***************************************************************************)
(* C2.  For every combination of sample_rate and sample_rate_key, a stage  *)
(* configured with both or with neither fails at construction, and no      *)
(* constructed stage raises the "must provide sample_rate" error when it   *)
(* resolves the sample rate of a record.                                   *)
(***************************************************************************)
C2_NeverAtCallTime ==
  /\ (ret.op = "init" /\ args.sample_rate_key.none = args.sample_rate.none)
       => ret.raised # ""
  /\ ret.op = "read_sample_rate" => ret.raised # MustProvide

(***************************************************************************)
(* C3.  Reading the sample rate from a record field fails when the float   *)
(* and int value lists are both empty or both non-empty, and otherwise     *)
(* returns the integer of the first value of the populated list.           *)
(***************************************************************************)
C3_ExactlyOneRepresentation ==
  (/\ ret.op = "read_sample_rate"
   /\ TruthyStr(self.sample_rate_key)
   /\ HasFeature(ret.ex, self.sample_rate_key.v))
  => LET f == ret.ex[self.sample_rate_key.v].float_list
         i == ret.ex[self.sample_rate_key.v].int64_list
     IN IF (Len(f) = 0) = (Len(i) = 0)
        THEN ret.raised = ExpectedExactlyOne
        ELSE /\ ret.raised = ""
             /\ ret.value = IF Len(f) > 0 THEN FloatToInt(f[1]) ELSE i[1]

(***************************************************************************)
(* Feature projection: _audio_to_features called on waveforms of every     *)
(* length up to MaxAudioLen, for every configured minimum length.          *)
(***************************************************************************)
FeatureFns == {None, Some("reverse_f32"), Some("f64"), Some("list")}
MinLengths == {None} \cup {Some(m) : m \in 0..MaxMinLen}
ArgsPad ==
  {[BaseArgs EXCEPT !.feature_fn = fn, !.model_input_min_length = m] :
     fn \in FeatureFns, m \in MinLengths}
Waveforms == SeqsUpTo({1, 2, 3}, MaxAudioLen) \ {<<>>}

ConstructPad == \E a \in ArgsPad : Construct(a)

AudioToFeatures ==
  \E w \in Waveforms :
    /\ self.cls # "none"
    /\ LET audio == NdArray("float32", <<Len(w)>>, w)
           r == audio_to_features(self, audio, self.target_sample_rate)
       IN ret' = [op |-> "audio_to_features", audio |-> audio,
                  raised |-> r.raised, value |-> r.value]
    /\ UNCHANGED <<self, args, setup_calls, setup_fn_calls, first>>

NextPad == ConstructPad \/ AudioToFeatures
SpecPad == Init /\ [][NextPad]_vars

(***************************************************************************)
(* C9.  With no feature_fn and a minimum length M, projecting a waveform   *)
(* of length L gives an array of length max(L, M) that starts with the     *)
(* waveform; it is the waveform itself when L >= M, and otherwise the      *)
(* added samples are the waveform mirrored at its end (and mirrored again  *)
(* every L samples), never zeros and never put in front.                   *)
(***************************************************************************)
C9_SymmetricPadding ==
  (/\ ret.op = "audio_to_features"
   /\ self.feature_fn.none
   /\ ~ self.model_input_min_length.none)
  => LET M == self.model_input_min_length.v
         w == ret.audio.data
         L == Len(w)
     IN /\ ret.raised = ""
        /\ ret.value.shape = <<Max(L, M)>>
        /\ Len(ret.value.data) = Max(L, M)
        /\ SubSeq(ret.value.data, 1, L) = w
        /\ L >= M => ret.value = ret.audio
        /\ \A p \in (L + 1)..Len(ret.value.data) :
             ret.value.data[p] = IF ((p - 1) \div L) % 2 = 1
                                 THEN w[L - ((p - 1) % L)]
                                 ELSE w[((p - 1) % L) + 1]

\* A waveform padded by more than twice its length.
C9_Witness ==
  /\ ret.op = "audio_to_features"
  /\ self.feature_fn.none
  /\ ~ self.model_input_min_length.none
  /\ Len(ret.audio.data) >= 2
  /\ self.model_input_min_length.v > 3 * Len(ret.audio.data)
  /\ ret.raised = ""

(***************************************************************************)
(* The life of one single-embedding instance: setup() and process() calls  *)
(* in any order, on records that succeed and records that fail.            *)
(***************************************************************************)
ArgsLife ==
  {[BaseArgs EXCEPT !.sample_rate_key = sr[1], !.sample_rate = sr[2],
                    !.average_over_time = avg, !.module_call_fn = fn] :
     sr \in {<<None, Some(16000)>>, <<Some("sample_rate"), None>>},
     avg \in BOOLEAN, fn \in {"ok", "float64_if_short"}}

RateFeature(r) == Feature(<<>>, <<r>>, <<>>)
ExamplesLife ==
  {[audio |-> AudioFeature(Samples(2)), sample_rate |-> RateFeature(16000)],
   [audio |-> AudioFeature(Samples(1)), sample_rate |-> RateFeature(16000)],
   [audio |-> AudioFeature(Samples(2)), sample_rate |-> RateFeature(8000)],
   [sample_rate |-> RateFeature(16000)],
   [audio |-> AudioFeature(Samples(2))]}

ConstructLife == \E a \in ArgsLife : Construct(a)
ProcessLife == \E k \in Keys, ex \in ExamplesLife : ProcessTracked(k, ex)

NextLife == ConstructLife \/ Setup \/ ProcessLife
SpecLife == Init /\ [][NextLife]_vars

(***************************************************************************)
(* C1.  For any sequence of setup() and process() calls on one instance,   *)
(* the loader is invoked at most once, and every model call made by        *)
(* process() uses a handle the loader produced before that call.           *)
(***************************************************************************)
C1_LoaderAtMostOnce ==
  /\ setup_fn_calls <= 1
  /\ (ret.op = "process" /\ ~ ret.call.none)
       => \E n \in 1..setup_fn_calls :
            ret.call.v.module = setup_fn(self.module, n)

(***************************************************************************)
(* C1, amended.  The loader is invoked once per setup() call; every model  *)
(* call made by process() uses the handle produced by the latest of these  *)
(* invocations, and without an earlier setup() process() makes no model    *)
(* call.                                                                   *)
(***************************************************************************)
C1_LoaderOncePerSetup ==
  /\ setup_fn_calls = setup_calls
  /\ (ret.op = "process" /\ ~ ret.call.none)
       => /\ setup_calls >= 1
          /\ ret.call.v.module = setup_fn(self.module, setup_fn_calls)
  /\ (ret.op = "process" /\ setup_calls = 0)
       => ret.raised # "" /\ ret.yielded = <<>>

C1_Witness ==
  /\ ret.op = "process"
  /\ ~ ret.call.none
  /\ setup_calls = 2

StubsA == {"ok", "float64", "tensor", "ndim1", "float64_if_short", "ndim3"}
StubsW2v2 == {"ok", "float64", "tensor", "ndim2", "wrong_dim", "bad_batch"}

ArgsA ==
  {[BaseArgs EXCEPT !.average_over_time = avg, !.module_call_fn = fn] :
     avg \in BOOLEAN, fn \in StubsA}

\* <<embedding_names, output keys>>
NamesAndKeys ==
  {<< <<"a">>, <<"k1">> >>, << <<"a", "b">>, <<"k1", "k2">> >>,
   << <<"b", "a">>, <<"k2", "k1">> >>, << <<"a">>, <<"k1", "k2">> >>,
   << <<"a", "b">>, <<"k1">> >>, << <<"a", "a">>, <<"k1", "k2">> >>,
   << <<"a", "b">>, <<"k1", "k3">> >>}

ArgsB ==
  {[BaseArgs EXCEPT !.cls = "ComputeMultipleEmbeddingsFromSingleModel",
                    !.average_over_time = avg, !.module_call_fn = fn,
                    !.embedding_names = nk[1], !.output_key = nk[2],
                    !.chunk_len = cl, !.embedding_length = el] :
     avg \in BOOLEAN, fn \in StubsW2v2, nk \in NamesAndKeys,
     cl \in {None, Some(2)}, el \in {None, Some(EmbDim)}}

\* <<label_key, speaker_id_key>>
LabelAndSpeakerKeys ==
  {<<None, None>>, <<Some("label"), Some("speaker")>>, <<Some(""), None>>}

ArgsC ==
  {[a EXCEPT !.cls = "ChunkAudioAndComputeEmbeddings",
             !.label_key = ls[1], !.speaker_id_key = ls[2],
             !.compute_embeddings_on_chunked_audio = c] :
     a \in ArgsB, ls \in LabelAndSpeakerKeys, c \in BOOLEAN}

BytesFeature(b) == Feature(<<>>, <<>>, <<b>>)
ExamplesOut ==
  {[audio |-> AudioFeature(Samples(MaxAudioLen)),
    label |-> Feature(<<>>, <<3>>, <<>>), speaker |-> BytesFeature("ann")],
   [audio |-> AudioFeature(Samples(MaxAudioLen - 1)),
    label |-> BytesFeature("cat"), speaker |-> BytesFeature("bob")],
   [audio |-> AudioFeature(Samples(1)),
    label |-> Feature(<<>>, <<12>>, <<>>), speaker |-> BytesFeature("ann")],
   [audio |-> AudioFeature(Samples(MaxAudioLen)), label |-> BytesFeature("cat")],
   [audio |-> AudioFeature(<<>>),
    label |-> BytesFeature("cat"), speaker |-> BytesFeature("bob")]}

ConstructOut == \E a \in ArgsA \cup ArgsB \cup ArgsC : Construct(a)
ProcessOut == \E k \in Keys, ex \in ExamplesOut : Process(k, ex)

NextOut == ConstructOut \/ Setup \/ ProcessOut
SpecOut == Init /\ [][NextOut]_vars

(***************************************************************************)
(* What the claims about process() speak of, recomputed from the recorded  *)
(* call: the model's output(s), the embeddings read, the chunked audio.    *)
(***************************************************************************)
IsA == self.cls = "ComputeEmbeddingMapFn"
IsB == self.cls = "ComputeMultipleEmbeddingsFromSingleModel"
IsC == self.cls = "ChunkAudioAndComputeEmbeddings"
Called == ret.op = "process" /\ ~ ret.call.none
Rejected == ret.raised # "" /\ ret.yielded = <<>>

OutputA ==
  CallModuleFn(self.module_call_fn, ret.call.v.model_input,
               ret.call.v.sample_rate, ret.call.v.module,
               ret.call.v.output_key, ret.call.v.name)
OutputsW2v2 ==
  CallModuleFnW2v2(self.module_call_fn, ret.call.v.model_input,
                   ret.call.v.module)

\* The positions of the output keys whose output the stage reads: in the
\* multiple-embeddings stage those paired with an embedding name, in the
\* chunked-audio stage all of them.
KeysRead ==
  {j \in 1..(IF IsB THEN Min(Len(self.embedding_names), Len(self.output_key))
             ELSE Len(self.output_key)) : self.output_key[j] \in ModelKeys}
OutputOfKey(j) == OutputsW2v2[self.output_key[j]]

WrongShapeOrDtype(x, ndim) == Ndim(x) # ndim \/ x.dtype # "float32"
WrongEmbeddingDim(x) ==
  /\ TruthyInt(self.embedding_length)
  /\ Ndim(x) = 3
  /\ x.shape[3] # self.embedding_length.v

(***************************************************************************)
(* C4.  In each of the three stages, a model output that fails a           *)
(* validation check (not an array, wrong number of dimensions, dtype other *)
(* than float32, wrong embedding dimension) makes process() fail with no   *)
(* record emitted; no failing process() has emitted a record.              *)
(***************************************************************************)
C4_InvalidOutputRejected ==
  /\ ret.op = "process" /\ ret.raised # "" => ret.yielded = <<>>
  /\ (Called /\ IsA /\ (~ IsNdArray(OutputA) \/ WrongShapeOrDtype(OutputA, 2)))
       => Rejected
  /\ (Called /\ (IsB \/ IsC)
      /\ \E j \in KeysRead : \/ ~ IsNdArray(OutputOfKey(j))
                             \/ WrongShapeOrDtype(OutputOfKey(j), 3)
                             \/ WrongEmbeddingDim(OutputOfKey(j)))
       => Rejected

(***************************************************************************)
(* C4, amended.  In the single-embedding stage a model output that is not  *)
(* an ndarray, not 2-D or not float32 makes process() fail.  The two       *)
(* multi-output stages convert every output they read with np.array, so a  *)
(* value is not rejected for not being an ndarray; an output that is not   *)
(* 3-D, not float32 or (embedding_length being set) of another last        *)
(* dimension makes process() fail.  A failing process() has emitted no     *)
(* record.                                                                 *)
(***************************************************************************)
C4_InvalidOutputRejectedAfterConversion ==
  /\ ret.op = "process" /\ ret.raised # "" => ret.yielded = <<>>
  /\ (Called /\ IsA /\ (~ IsNdArray(OutputA) \/ WrongShapeOrDtype(OutputA, 2)))
       => Rejected
  /\ (Called /\ (IsB \/ IsC)
      /\ \E j \in KeysRead : \/ WrongShapeOrDtype(OutputOfKey(j), 3)
                             \/ WrongEmbeddingDim(OutputOfKey(j)))
       => Rejected

\* The chunked-audio stage rejecting a float64 output for a record of
\* several chunks.
C4_Witness ==
  /\ Called /\ IsC
  /\ ret.call.v.model_input.shape[1] >= 2
  /\ \E j \in KeysRead : OutputOfKey(j).dtype = "float64"
  /\ Rejected

(***************************************************************************)
(* C5.  In the two multi-output stages, when the model was invoked on      *)
(* chunked audio, an output whose first axis differs from the number of    *)
(* input chunks is rejected, and no record is built from it.               *)
(***************************************************************************)
InvokedOnChunks ==
  /\ TruthyInt(self.chunk_len)
  /\ Ndim(ret.call.v.model_input) = 2
  /\ ret.call.v.model_input.shape[2] = self.chunk_len.v

C5_FirstAxisIsChunkCount ==
  (/\ Called /\ (IsB \/ IsC)
   /\ InvokedOnChunks
   /\ \E j \in KeysRead :
        OutputOfKey(j).shape[1] # ret.call.v.model_input.shape[1])
  => Rejected

(***************************************************************************)
(* C6.  For a record of N chunks whose outputs pass validation, the        *)
(* chunked-audio stage emits N records in chunk order; record i has key    *)
(* "<key>_<i>", chunk i of the audio, each configured embedding name       *)
(* mapped to slice i of that name's embedding, and the label and speaker   *)
(* id of every other record of the input.                                  *)
(***************************************************************************)
ChunkedAudioOf(k, ex) ==
  Let(tfex_to_chunked_audio(self, k, ex).value[1], LAMBDA a :
      IF Ndim(a) = 1 THEN np_expand_dims0(a) ELSE a)

EmbeddingOfName(j) ==
  IF self.average_over_time
  THEN np_mean_keepdims(np_array(OutputOfKey(j)), 1)
  ELSE np_array(OutputOfKey(j))

C6_OneRecordPerChunk ==
  (ret.op = "process" /\ IsC /\ ret.raised = "")
  => Let(ChunkedAudioOf(ret.k, ret.ex), LAMBDA chunks :
       /\ Len(ret.yielded) = chunks.shape[1]
       /\ \A n \in 1..Len(ret.yielded) :
            /\ ret.yielded[n][1] = ret.k \o "_" \o Str(n - 1)
            /\ ret.yielded[n][2] = NdArray("float32", <<chunks.shape[2]>>,
                                           chunks.data[n])
            /\ ret.yielded[n][3] = ret.yielded[1][3]
            /\ ret.yielded[n][4] = ret.yielded[1][4]
            /\ \A j \in 1..Len(self.embedding_names) :
                 /\ j <= Len(self.output_key)
                 /\ self.embedding_names[j] \in DOMAIN ret.yielded[n][5]
                 /\ ret.yielded[n][5][self.embedding_names[j]]
                      = np_index0(EmbeddingOfName(j), n - 1))

(***************************************************************************)
(* C8.  In the multi-embedding stages the named embedding set of a         *)
(* successfully processed record has as many entries as there are          *)
(* configured output keys, for every configuration of embedding names and  *)
(* output keys.                                                            *)
(***************************************************************************)
C8_OneEntryPerOutputKey ==
  (ret.op = "process" /\ (IsB \/ IsC) /\ ret.raised = "")
  => \A n \in 1..Len(ret.yielded) :
       Cardinality(DOMAIN ret.yielded[n][IF IsB THEN 3 ELSE 5])
         = Len(self.output_key)

(***************************************************************************)
(* C10.  In the chunked-audio stage the array passed to the model call is  *)
(* the chunked audio when compute_embeddings_on_chunked_audio is true and  *)
(* the un-chunked preprocessed model input when it is false.               *)
(***************************************************************************)
C10_ModelInputSelectedByOption ==
  (Called /\ IsC)
  => ret.call.v.model_input =
       IF self.compute_embeddings_on_chunked_audio
       THEN ChunkedAudioOf(ret.k, ret.ex)
       ELSE read_and_preprocess_audio(self, ret.k, ret.ex).value[1]

====
